---- MODULE Spec2Model ----
(***************************************************************************)
(* pretix_pages/views.py: the management views of the Page entity (list,   *)
(* create, update, delete) and the public page renderer, as concurrent     *)
(* web requests over one database.                                         *)
(*                                                                         *)
(* Each request is a process.  A POST that passes the permission check and *)
(* the form validation takes two steps: the part of the view that runs     *)
(* before the @transaction.atomic block (dispatch, get_object, is_valid),  *)
(* and the atomic block itself, whose writes become visible together when  *)
(* it commits.  Other requests may commit between the two steps (the       *)
(* database runs READ COMMITTED; no row is locked by a SELECT).            *)
(***************************************************************************)
EXTENDS Integers, Sequences, FiniteSets, TLC

\* Number of requests ever started in one behaviour.
MaxOps == 3

\* PageList.paginate_by
paginate_by == 20

Events == {"E1", "E2"}
Slugs == {"imprint", "faq"}
Users == {"alice", "bob"}
Requests == {1, 2}

\* The pk of an unsaved or deleted model instance (None).
NoId == 0

\* PageForm.Meta.fields
FormFields == {"title", "slug", "text", "link_in_footer", "link_on_frontpage"}

\* Submitted content: a base form and every form that differs from it in
\* exactly one of the four content fields.
BaseData ==
    [title |-> "Imprint", text |-> "A",
     link_in_footer |-> FALSE, link_on_frontpage |-> FALSE]

DataVariants ==
    { BaseData,
      [BaseData EXCEPT !.title = "Terms"],
      [BaseData EXCEPT !.text = "B"],
      [BaseData EXCEPT !.link_in_footer = TRUE],
      [BaseData EXCEPT !.link_on_frontpage = TRUE] }

Form(d, s) ==
    [title |-> d.title, slug |-> s, text |-> d.text,
     link_in_footer |-> d.link_in_footer, link_on_frontpage |-> d.link_on_frontpage]

\* What an edit may submit: every variant, under the page's slug or another.
Forms == {Form(d, s) : d \in DataVariants, s \in Slugs}

\* What a new page is created with: the base content, under either slug.
NewForms == {Form(BaseData, s) : s \in Slugs}

\* A Page row: the form fields plus id and event.
Row(id, event, f) ==
    [id |-> id, event |-> event, title |-> f.title, slug |-> f.slug, text |-> f.text,
     link_in_footer |-> f.link_in_footer, link_on_frontpage |-> f.link_on_frontpage]

\* The form fields of a Page row (ModelForm initial data, model_to_dict).
FieldsOf(p) ==
    [title |-> p.title, slug |-> p.slug, text |-> p.text,
     link_in_footer |-> p.link_in_footer, link_on_frontpage |-> p.link_on_frontpage]

\* Placeholders for the locals of a request that holds no form or object.
NoForm ==
    [title |-> "", slug |-> "", text |-> "",
     link_in_footer |-> FALSE, link_on_frontpage |-> FALSE]
NoPage == Row(NoId, "E1", NoForm)

VARIABLES
    pages,      \* committed rows of the Page table
    nextId,     \* the table's auto-increment sequence
    audit,      \* committed LogEntry rows, in insertion order
    pc,         \* per request: "idle" or the atomic block it is about to enter
    req,        \* per request: the view's locals (event, user, object, form)
    response,   \* the last response sent
    started     \* number of requests started

vars == <<pages, nextId, audit, pc, req, response, started>>

\* Page ids the URL kwarg 'page' ranges over: every id the database has
\* assigned so far (1, 2, ...) and the next one, which no Page has.
PageIds == 1..nextId

----------------------------------------------------------------------------
(* External collaborators *)

\* request.user.has_event_permission(event), as the permission mixin asks it:
\* alice is on a team of both events, bob on none.
has_event_permission(user, event) == user = "alice"

\* The views with PageDelete missing EventPermissionRequiredMixin.
PermissionRequired_notOnDelete(view) == view \in {"list", "create", "update"}

\* The views that inherit EventPermissionRequiredMixin; ShowPageView is
\* decorated with event_view alone.
PermissionRequired(view) == view \in {"list", "create", "update", "delete"}

\* The permission check that runs before the view's dispatch.
Forbidden(view, user, event) ==
    PermissionRequired(view) /\ ~has_event_permission(user, event)

\* obj.log_action(action, user=, data=): one LogEntry row of the event's audit
\* trail, naming the object by its pk.
log_action(action, obj, user, data) ==
    [action |-> action, event |-> obj.event, page |-> obj.id, user |-> user,
     data |-> data]

NoData == [k \in {} |-> FALSE]

----------------------------------------------------------------------------
(* Database *)

\* The Page model declares no uniqueness constraint over (event, slug): the
\* existence check of PageForm.clean_slug is the only guard.
Page_unique_slug == FALSE

\* Whether the INSERT of row raises IntegrityError.
IntegrityError(table, row) ==
    Page_unique_slug /\ \E p \in table : p.event = row.event /\ p.slug = row.slug

\* Page.delete(): DELETE of the Page row by pk; LogEntry rows stay.
Page_delete(db, id) == [db EXCEPT !.pages = {p \in @ : p.id # id}]

\* One statement applied to the database db = [pages, audit].
\*   insert: Model.save() of an instance without pk
\*   save:   Model.save() of an instance with pk: UPDATE by pk, and INSERT when
\*           the UPDATE matched no row
\*   delete: Page.delete()
\*   log:    the LogEntry insert of log_action
ApplyStmt(db, s) ==
    CASE s.op = "insert" -> [db EXCEPT !.pages = @ \cup {s.row}]
      [] s.op = "save"   -> [db EXCEPT !.pages = {p \in @ : p.id # s.row.id} \cup {s.row}]
      [] s.op = "delete" -> Page_delete(db, s.id)
      [] s.op = "log"    -> [db EXCEPT !.audit = Append(@, s.entry)]

RECURSIVE ApplyAll(_, _)
ApplyAll(db, stmts) ==
    IF stmts = << >> THEN db
    ELSE ApplyAll(ApplyStmt(db, Head(stmts)), Tail(stmts))

\* Without an enclosing transaction every statement commits on its own.
transaction_autocommit(db, stmts, failAt) ==
    IF failAt = 0 THEN ApplyAll(db, stmts)
    ELSE ApplyAll(db, SubSeq(stmts, 1, failAt - 1))

\* @transaction.atomic around a block that runs stmts in order; statement
\* number failAt raises (0: none does).  On normal exit all writes commit
\* together; on an exception the block is rolled back.
transaction_atomic(db, stmts, failAt) ==
    IF failAt = 0 THEN ApplyAll(db, stmts) ELSE db

----------------------------------------------------------------------------
(* Forms *)

\* clean_slug of a form built without its event kwarg: self.event is None and
\* the filter matches no Page.
PageForm_clean_slug_eventUnset(slug, event, table) ==
    [error |-> "", slug |-> slug]

\* PageForm.clean_slug: the slug, or the duplicate_slug ValidationError when a
\* Page of the event already has it.
PageForm_clean_slug(slug, event, table) ==
    IF \E p \in table : p.slug = slug /\ p.event = event
    THEN [error |-> "DuplicateSlug", slug |-> slug]
    ELSE [error |-> "", slug |-> slug]

\* PageEditForm without its clean_slug override: PageForm.clean_slug runs.
PageEditForm_clean_slug_inherited(instance, slug, event, table) ==
    PageForm_clean_slug(slug, event, table)

\* PageEditForm.clean_slug: the instance's slug, whatever was submitted.
PageEditForm_clean_slug(instance, slug, event, table) ==
    [error |-> "", slug |-> instance.slug]

\* PageEditForm.slug is declared disabled=True: a disabled field takes its
\* value from the initial data, not from the POST data.
PageEditForm_disabled == {"slug"}

BoundData(initial, data, disabled) ==
    [k \in FormFields |-> IF k \in disabled THEN initial[k] ELSE data[k]]

\* form.changed_data: the fields whose bound value differs from the initial
\* value; a disabled field never counts as changed.
changed_data(initial, data, disabled) ==
    {k \in FormFields \ disabled : data[k] # initial[k]}

----------------------------------------------------------------------------
(* Lookups *)

\* PageDetailMixin.get_object: Page.objects.get(event=..., id=...); the set is
\* empty when the lookup raises Page.DoesNotExist (Http404).
get_object(table, event, id) == {p \in table : p.event = event /\ p.id = id}

\* The same lookup written with filter(...).first(): the first match by id.
get_page_first(table, event, slug) ==
    LET found == {p \in table : p.event = event /\ p.slug = slug}
    IN  IF found = {} THEN [status |-> "NotFound", page |-> NoPage]
        ELSE [status |-> "OK",
              page |-> CHOOSE p \in found : \A q \in found : p.id <= q.id]

\* ShowPageView.get_page: Page.objects.get(event=..., slug=...).  No row:
\* Page.DoesNotExist, turned into Http404.  More than one row: get() raises
\* Page.MultipleObjectsReturned, which nothing catches.
get_page(table, event, slug) ==
    LET found == {p \in table : p.event = event /\ p.slug = slug}
    IN  IF found = {} THEN [status |-> "NotFound", page |-> NoPage]
        ELSE IF Cardinality(found) > 1
             THEN [status |-> "MultipleObjectsReturned", page |-> NoPage]
             ELSE [status |-> "OK", page |-> CHOOSE p \in found : TRUE]

\* PageList: model = Page with no get_queryset, so the queryset is
\* Page.objects.all(); the first page of paginate_by rows in id order.
PageList_page(table) ==
    {p.id : p \in {q \in table : Cardinality({o \in table : o.id < q.id}) < paginate_by}}

----------------------------------------------------------------------------
(* The bodies of the atomic blocks, as the statements they run in order *)

\* PageCreate.form_valid: super().form_valid saves the new instance (the
\* database assigns id), then log_action records page.added with all of
\* cleaned_data.
PageCreate_form_valid(event, user, cleaned, id) ==
    LET obj == Row(id, event, cleaned)
    IN  << [op |-> "insert", row |-> obj],
           [op |-> "log", entry |-> log_action("pretix_pages.page.added", obj, user, cleaned)] >>

\* The same block logging the way PageCreate does: always, with all of
\* cleaned_data.
PageUpdate_form_valid_logAll(object, user, cleaned, changed) ==
    LET obj == Row(object.id, object.event, cleaned)
    IN  << [op |-> "log",
            entry |-> log_action("pretix_pages.page.changed", obj, user, cleaned)],
           [op |-> "save", row |-> obj] >>

\* PageUpdate.form_valid: page.changed with the changed fields when the form
\* has changed, then super().form_valid saves the instance, which already
\* carries cleaned_data.
PageUpdate_form_valid(object, user, cleaned, changed) ==
    LET obj == Row(object.id, object.event, cleaned)
        log == [op |-> "log",
                entry |-> log_action("pretix_pages.page.changed", obj, user,
                                   [k \in changed |-> cleaned[k]])]
        save == [op |-> "save", row |-> obj]
    IN  IF changed # {} THEN <<log, save>> ELSE <<save>>

\* The same block with the audit entry written after the row is deleted;
\* Model.delete() resets the instance's pk to None.
PageDelete_delete_logAfter(object, user) ==
    << [op |-> "delete", id |-> object.id],
       [op |-> "log",
        entry |-> log_action("pretix_pages.page.deleted", [object EXCEPT !.id = NoId], user, NoData)] >>

\* PageDelete.delete after get_object: log_action records page.deleted with
\* no data, then the object is deleted.
PageDelete_delete(object, user) ==
    << [op |-> "log", entry |-> log_action("pretix_pages.page.deleted", object, user, NoData)],
       [op |-> "delete", id |-> object.id] >>

----------------------------------------------------------------------------
(* Requests *)

IdleReq ==
    [kind |-> "none", event |-> "E1", user |-> "alice", object |-> NoPage,
     data |-> NoForm, cleaned |-> NoForm, changed |-> {}]

Resp(kind, user, event, status) ==
    [kind |-> kind, user |-> user, event |-> event, status |-> status, page |-> NoId,
     slug |-> "", title |-> "", content |-> "", listing |-> {}, message |-> ""]

\* A new request is served by the first free worker.
FreeWorker(r) ==
    /\ pc[r] = "idle"
    /\ \A o \in Requests : pc[o] = "idle" => r <= o

Init ==
    /\ pages = {}
    /\ nextId = 1
    /\ audit = << >>
    /\ pc = [r \in Requests |-> "idle"]
    /\ req = [r \in Requests |-> IdleReq]
    /\ response = Resp("none", "alice", "E1", "none")
    /\ started = 0

\* GET of the page list.
PageList(user, event) ==
    /\ started < MaxOps
    /\ started' = started + 1
    /\ response' =
          IF Forbidden("list", user, event)
          THEN Resp("list", user, event, "Forbidden")
          ELSE [Resp("list", user, event, "OK") EXCEPT !.listing = PageList_page(pages)]
    /\ UNCHANGED <<pages, nextId, audit, pc, req>>

\* GET of a public page.
ShowPageView(user, event, slug) ==
    /\ started < MaxOps
    /\ started' = started + 1
    /\ LET got == get_page(pages, event, slug)
           base == [Resp("show", user, event, got.status) EXCEPT !.slug = slug]
       IN  response' =
             IF Forbidden("show", user, event) THEN [base EXCEPT !.status = "Forbidden"]
             ELSE IF got.status # "OK" THEN base
             ELSE [base EXCEPT !.page = got.page.id, !.title = got.page.title,
                               !.content = got.page.text]
    /\ UNCHANGED <<pages, nextId, audit, pc, req>>

\* POST to PageCreate up to form.is_valid(): permission check and
\* PageForm.clean_slug, before the atomic form_valid.
PageCreatePost(r, user, event, data) ==
    /\ FreeWorker(r)
    /\ started < MaxOps
    /\ started' = started + 1
    /\ LET base == [Resp("create", user, event, "OK") EXCEPT !.slug = data.slug]
           slug == PageForm_clean_slug(data.slug, event, pages)
       IN  IF Forbidden("create", user, event)
           THEN /\ response' = [base EXCEPT !.status = "Forbidden"]
                /\ UNCHANGED <<pc, req>>
           ELSE IF slug.error # ""
           THEN /\ response' = [base EXCEPT !.status = slug.error]
                /\ UNCHANGED <<pc, req>>
           ELSE /\ pc' = [pc EXCEPT ![r] = "create"]
                /\ req' = [req EXCEPT ![r] =
                             [kind |-> "create", event |-> event, user |-> user,
                              object |-> NoPage, data |-> data,
                              cleaned |-> [data EXCEPT !.slug = slug.slug],
                              changed |-> {}]]
                /\ UNCHANGED response
    /\ UNCHANGED <<pages, nextId, audit>>

\* PageCreate.form_valid, the atomic block.  The auto-increment sequence
\* advances with the committed insert.
PageCreateFormValid(r) ==
    /\ pc[r] = "create"
    /\ \E failAt \in 0..2 :
         LET q == req[r]
             stmts == PageCreate_form_valid(q.event, q.user, q.cleaned, nextId)
             db == transaction_atomic([pages |-> pages, audit |-> audit], stmts, failAt)
             base == [Resp("create", q.user, q.event, "Redirect") EXCEPT
                        !.slug = q.cleaned.slug]
         IN  /\ IntegrityError(pages, stmts[1].row) => failAt = 1
             /\ pages' = db.pages
             /\ audit' = db.audit
             /\ nextId' = IF failAt = 0 THEN nextId + 1 ELSE nextId
             /\ response' =
                   IF failAt = 0
                   THEN [base EXCEPT !.page = nextId,
                                     !.message = "The new page has been created."]
                   ELSE [base EXCEPT !.status = "ServerError"]
    /\ pc' = [pc EXCEPT ![r] = "idle"]
    /\ req' = [req EXCEPT ![r] = IdleReq]
    /\ UNCHANGED started

\* POST to PageUpdate up to form.is_valid(): permission check, get_object, and
\* the PageEditForm bound to the object, before the atomic form_valid.
PageUpdatePost(r, user, event, id, data) ==
    /\ FreeWorker(r)
    /\ started < MaxOps
    /\ started' = started + 1
    /\ LET base == [Resp("update", user, event, "OK") EXCEPT !.page = id,
                                                            !.slug = data.slug]
           found == get_object(pages, event, id)
       IN  IF Forbidden("update", user, event)
           THEN /\ response' = [base EXCEPT !.status = "Forbidden"]
                /\ UNCHANGED <<pc, req>>
           ELSE IF found = {}
           THEN /\ response' = [base EXCEPT !.status = "NotFound"]
                /\ UNCHANGED <<pc, req>>
           ELSE LET object == CHOOSE p \in found : TRUE
                    initial == FieldsOf(object)
                    bound == BoundData(initial, data, PageEditForm_disabled)
                    slug == PageEditForm_clean_slug(object, bound.slug, event, pages)
                IN  IF slug.error # ""
                    THEN /\ response' = [base EXCEPT !.status = slug.error]
                         /\ UNCHANGED <<pc, req>>
                    ELSE /\ pc' = [pc EXCEPT ![r] = "update"]
                         /\ req' = [req EXCEPT ![r] =
                                      [kind |-> "update", event |-> event, user |-> user,
                                       object |-> object, data |-> data,
                                       cleaned |-> [bound EXCEPT !.slug = slug.slug],
                                       changed |-> changed_data(initial, bound,
                                                                PageEditForm_disabled)]]
                         /\ UNCHANGED response
    /\ UNCHANGED <<pages, nextId, audit>>

\* PageUpdate.form_valid, the atomic block.
PageUpdateFormValid(r) ==
    /\ pc[r] = "update"
    /\ LET q == req[r]
           stmts == PageUpdate_form_valid(q.object, q.user, q.cleaned, q.changed)
           base == [Resp("update", q.user, q.event, "Redirect") EXCEPT
                      !.page = q.object.id, !.slug = q.data.slug]
       IN  \E failAt \in 0..Len(stmts) :
             LET db == transaction_atomic([pages |-> pages, audit |-> audit], stmts, failAt)
             IN  /\ pages' = db.pages
                 /\ audit' = db.audit
                 /\ response' =
                       IF failAt = 0
                       THEN [base EXCEPT !.message = "Your changes have been saved."]
                       ELSE [base EXCEPT !.status = "ServerError"]
    /\ pc' = [pc EXCEPT ![r] = "idle"]
    /\ req' = [req EXCEPT ![r] = IdleReq]
    /\ UNCHANGED <<nextId, started>>

\* POST to PageDelete: permission check, then delete() up to get_object.
PageDeletePost(r, user, event, id) ==
    /\ FreeWorker(r)
    /\ started < MaxOps
    /\ started' = started + 1
    /\ LET base == [Resp("delete", user, event, "OK") EXCEPT !.page = id]
           found == get_object(pages, event, id)
       IN  IF Forbidden("delete", user, event)
           THEN /\ response' = [base EXCEPT !.status = "Forbidden"]
                /\ UNCHANGED <<pc, req>>
           ELSE IF found = {}
           THEN /\ response' = [base EXCEPT !.status = "NotFound"]
                /\ UNCHANGED <<pc, req>>
           ELSE /\ pc' = [pc EXCEPT ![r] = "delete"]
                /\ req' = [req EXCEPT ![r] =
                             [kind |-> "delete", event |-> event, user |-> user,
                              object |-> CHOOSE p \in found : TRUE,
                              data |-> NoForm, cleaned |-> NoForm, changed |-> {}]]
                /\ UNCHANGED response
    /\ UNCHANGED <<pages, nextId, audit>>

\* PageDelete.delete from log_action to the end of the atomic block.
PageDeleteDelete(r) ==
    /\ pc[r] = "delete"
    /\ LET q == req[r]
           stmts == PageDelete_delete(q.object, q.user)
           base == [Resp("delete", q.user, q.event, "Redirect") EXCEPT
                      !.page = q.object.id, !.slug = q.object.slug]
       IN  \E failAt \in 0..Len(stmts) :
             LET db == transaction_atomic([pages |-> pages, audit |-> audit], stmts, failAt)
             IN  /\ pages' = db.pages
                 /\ audit' = db.audit
                 /\ response' =
                       IF failAt = 0
                       THEN [base EXCEPT
                               !.message = "The selected category has been deleted."]
                       ELSE [base EXCEPT !.status = "ServerError"]
    /\ pc' = [pc EXCEPT ![r] = "idle"]
    /\ req' = [req EXCEPT ![r] = IdleReq]
    /\ UNCHANGED <<nextId, started>>

Next ==
    \/ \E u \in Users, e \in Events : PageList(u, e)
    \/ \E u \in Users, e \in Events, s \in Slugs : ShowPageView(u, e, s)
    \/ \E r \in Requests, u \in Users, e \in Events, d \in NewForms :
         PageCreatePost(r, u, e, d)
    \/ \E r \in Requests : PageCreateFormValid(r)
    \/ \E r \in Requests, u \in Users, e \in Events, i \in PageIds, d \in Forms :
         PageUpdatePost(r, u, e, i, d)
    \/ \E r \in Requests : PageUpdateFormValid(r)
    \/ \E r \in Requests, u \in Users, e \in Events, i \in PageIds :
         PageDeletePost(r, u, e, i)
    \/ \E r \in Requests : PageDeleteDelete(r)

Spec == Init /\ [][Next]_vars

----------------------------------------------------------------------------
(* Properties *)

Busy == {r \in Requests : pc[r] # "idle"}

\* A step that starts a request.
FirstStep == started' = started + 1
\* A step that starts a request and answers it at once.
Answered == FirstStep /\ pc' = pc
\* A step in which request r enters, or leaves, an atomic block.
Entered(r, block) == pc[r] = "idle" /\ pc'[r] = block
Left(r, block) == pc[r] = block /\ pc'[r] = "idle"

Live(table, event, slug) == {p \in table : p.event = event /\ p.slug = slug}
Ids(table) == {p.id : p \in table}
Last(log) == log[Len(log)]
Appended(log, log2) == Len(log2) = Len(log) + 1 /\ SubSeq(log2, 1, Len(log)) = log

\* C1: a Create for (event, slug) that starts while a committed Page of that
\* event has that slug is answered with DuplicateSlug in its first step: it
\* never reaches form_valid, and it changes neither the pages nor the audit
\* trail.
C1_SecondCreateRejected ==
    [][\A e \in Events, s \in Slugs :
         Live(pages, e, s) # {} =>
           /\ \A r \in Requests :
                ~(Entered(r, "create") /\ req'[r].event = e /\ req'[r].data.slug = s)
           /\ ( /\ Answered
                /\ response'.kind = "create"
                /\ response'.event = e
                /\ response'.slug = s
                /\ has_event_permission(response'.user, e) )
              => /\ response'.status = "DuplicateSlug"
                 /\ pages' = pages
                 /\ audit' = audit]_vars

\* C1 witness: a Create was answered DuplicateSlug and the one Page with its
\* (event, slug) is still the only one.
C1_Witness ==
    /\ response.kind = "create"
    /\ response.status = "DuplicateSlug"
    /\ Cardinality(Live(pages, response.event, response.slug)) = 1

\* C2: no two live Pages of one event share a slug.
C2_UniqueSlugPerEvent ==
    \A p \in pages, q \in pages :
        (p.event = q.event /\ p.slug = q.slug) => p.id = q.id

\* C3: no step changes the slug of a Page; a successful Update leaves the
\* Page stored under the slug it was loaded with; and no Update is answered
\* with DuplicateSlug, whatever slug it submits.
C3_UpdateKeepsSlug ==
    [][/\ \A p \in pages : \A q \in pages' : q.id = p.id => q.slug = p.slug
       /\ \A r \in Requests :
            (Left(r, "update") /\ response'.status = "Redirect") =>
               \E q \in pages' : q.id = req[r].object.id /\ q.slug = req[r].object.slug
       /\ \A r \in Requests :
            Entered(r, "update") => req'[r].cleaned.slug = req'[r].object.slug
       /\ response'.kind = "update" => response'.status # "DuplicateSlug"]_vars

\* C3 witness: an Update that submitted the slug of another Page of the
\* event succeeded, and its Page still has its own slug.
C3_Witness ==
    /\ response.kind = "update"
    /\ response.status = "Redirect"
    /\ \E p \in pages, q \in pages :
         /\ p.id = response.page
         /\ p.slug # response.slug
         /\ q.id # p.id
         /\ q.event = p.event
         /\ q.slug = response.slug

Management == {"list", "create", "update", "delete"}
Added(e) == e.action = "pretix_pages.page.added"
Changed(e) == e.action = "pretix_pages.page.changed"
Deleted(e) == e.action = "pretix_pages.page.deleted"

\* The part of C5 that is about Update and Delete: such a request enters its
\* atomic block only with a committed Page of its own event, and is answered
\* NotFound, changing nothing, when the id is that of another event's Page.
ManagementLookupIsScoped ==
    [][/\ \A r \in Requests : \A k \in {"update", "delete"} :
            Entered(r, k) =>
               /\ req'[r].object \in pages
               /\ req'[r].object.event = req'[r].event
       /\ ( /\ Answered
            /\ response'.kind \in {"update", "delete"}
            /\ has_event_permission(response'.user, response'.event)
            /\ \E p \in pages : p.id = response'.page /\ p.event # response'.event )
          => /\ response'.status = "NotFound"
             /\ pages' = pages
             /\ audit' = audit]_vars

\* C5: Pages are isolated per event.  An Update or Delete under one event
\* with the id of another event's Page is answered NotFound and changes
\* nothing; a public render of (event, slug) is answered NotFound when the
\* event has no Page with the slug, whatever other events hold, and returns
\* the title and text of the event's Page with that slug when it has one.
C5_EventIsolation ==
    [][/\ \A r \in Requests : \A k \in {"update", "delete"} :
            Entered(r, k) =>
               /\ req'[r].object \in pages
               /\ req'[r].object.event = req'[r].event
       /\ ( /\ Answered
            /\ response'.kind \in {"update", "delete"}
            /\ has_event_permission(response'.user, response'.event)
            /\ \E p \in pages : p.id = response'.page /\ p.event # response'.event )
          => /\ response'.status = "NotFound"
             /\ pages' = pages
             /\ audit' = audit
       /\ (Answered /\ response'.kind = "show") =>
            /\ Live(pages, response'.event, response'.slug) = {}
                 => response'.status = "NotFound"
            /\ \A p \in Live(pages, response'.event, response'.slug) :
                 /\ response'.status = "OK"
                 /\ response'.page = p.id
                 /\ response'.title = p.title
                 /\ response'.content = p.text]_vars

\* C6: a Page whose Delete has committed (its page.deleted entry is in the
\* trail) is never live again, so no lookup by its id finds it; and a public
\* render does not succeed for an (event, slug) whose Page was deleted unless
\* a Page with that slug was created in the event after the deletion.
C6_DeletedStaysDeleted ==
    /\ \A i \in 1..Len(audit) : Deleted(audit[i]) => audit[i].page \notin Ids(pages)
    /\ (response.kind = "show" /\ response.status = "OK") =>
         ~ \E a \in 1..Len(audit), i \in 1..Len(audit) :
              /\ Added(audit[a])
              /\ audit[a].event = response.event
              /\ audit[a].data.slug = response.slug
              /\ Deleted(audit[i])
              /\ audit[i].page = audit[a].page
              /\ \A j \in (i + 1)..Len(audit) :
                   ~( /\ Added(audit[j])
                      /\ audit[j].event = response.event
                      /\ audit[j].data.slug = response.slug )

C8_ForbiddenFirst ==
    [][/\ \A r \in Requests :
            pc'[r] # "idle" => has_event_permission(req'[r].user, req'[r].event)
       /\ ( /\ Answered
            /\ response'.kind \in Management
            /\ ~has_event_permission(response'.user, response'.event) )
          => /\ response'.status = "Forbidden"
             /\ pages' = pages
             /\ audit' = audit
             /\ nextId' = nextId
       /\ ( /\ response'.status \notin {"Forbidden", "none"}
            /\ ~has_event_permission(response'.user, response'.event) )
          => response'.kind = "show"
       /\ response'.kind = "show" => response'.status # "Forbidden"]_vars

\* C8 witness: a user without permission posted a Create whose slug a Page of
\* the event already has, and was answered Forbidden, not DuplicateSlug.
C8_Witness ==
    /\ response.kind = "create"
    /\ ~has_event_permission(response.user, response.event)
    /\ response.status = "Forbidden"
    /\ Live(pages, response.event, response.slug) # {}

\* C9: every step leaves the audit trail as it was or appends one entry to
\* it.  A successful Create appends page.added for the new Page with the
\* submitted values of all form fields; a successful Delete appends
\* page.deleted, with no data, naming the Page by the id it had before it was
\* removed, and the entries written earlier for that Page stay.
C9_AuditAppendOnly ==
    [][/\ audit' = audit \/ Appended(audit, audit')
       /\ \A r \in Requests :
            (Left(r, "create") /\ response'.status = "Redirect") =>
               /\ Appended(audit, audit')
               /\ Added(Last(audit'))
               /\ Last(audit').event = req[r].event
               /\ Last(audit').user = req[r].user
               /\ Last(audit').page \in Ids(pages') \ Ids(pages)
               /\ Last(audit').data = req[r].data
       /\ \A r \in Requests :
            (Left(r, "delete") /\ response'.status = "Redirect") =>
               /\ Appended(audit, audit')
               /\ Deleted(Last(audit'))
               /\ Last(audit').event = req[r].event
               /\ Last(audit').user = req[r].user
               /\ DOMAIN Last(audit').data = {}
               /\ Last(audit').page = req[r].object.id
               /\ Last(audit').page # NoId
               /\ Last(audit').page \notin Ids(pages')]_vars

\* C9 witness: a Page was created and deleted; it is gone, and its
\* page.added and page.deleted entries are both in the trail.
C9_Witness ==
    /\ response.kind = "delete"
    /\ response.status = "Redirect"
    /\ response.page \notin Ids(pages)
    /\ \E i \in 1..Len(audit), j \in 1..Len(audit) :
         /\ i < j
         /\ Added(audit[i])
         /\ audit[i].page = response.page
         /\ Deleted(audit[j])
         /\ audit[j].page = response.page

\* C10: a Create that passed clean_slug inserts its row when its form_valid
\* commits, whatever rows other requests committed in between: the slug is
\* not checked again.  And a public render of an (event, slug) that more
\* than one Page has is not answered with a Page: get() raises
\* MultipleObjectsReturned.
C10_CheckThenInsertRace ==
    [][/\ \A r \in Requests :
            (Left(r, "create") /\ response'.status = "Redirect") =>
               \E row \in pages' :
                  /\ row \notin pages
                  /\ row.event = req[r].event
                  /\ row.slug = req[r].data.slug
                  /\ pages' = pages \cup {row}
       /\ ( /\ Answered
            /\ response'.kind = "show"
            /\ Cardinality(Live(pages, response'.event, response'.slug)) > 1 )
          => response'.status = "MultipleObjectsReturned"]_vars

\* C10 witness: two Creates for one (event, slug) both committed, and a
\* public render of that slug was answered MultipleObjectsReturned.
C10_Witness ==
    /\ response.kind = "show"
    /\ response.status = "MultipleObjectsReturned"
    /\ Cardinality(Live(pages, response.event, response.slug)) = 2

====
